---- MODULE Spec2Model ----
(***************************************************************************)
(* Model of efi/efimm.c: the EFI page allocator with its allocation table, *)
(* the memory-map pipeline that builds the e820 map, and get_mmap_entry.   *)
(*                                                                         *)
(* Physical addresses handled by the page allocator are page aligned and   *)
(* are written as page frame numbers (address >> 12), so that the 2 GiB    *)
(* ceiling 0x7fffffff is the frame number 0x7ffff.  The e820 translator    *)
(* works on byte addresses, as the code does.                              *)
(***************************************************************************)
EXTENDS Integers, Sequences, FiniteSets, TLC

VARIABLES
    allocated_pages,   \* static struct allocated_page *allocated_pages (0 = NULL)
    table,             \* the contents of the storage allocated_pages points to
    fw,                \* the page ranges the firmware currently has allocated
    phase,             \* "boot" (before grub_efi_mm_init), "running",
                       \* "finished", "late" (one call after grub_efi_mm_fini)
    call,              \* the entry point called last and its arguments
    ret,               \* its return value (0 = NULL)
    log,               \* the firmware services it invoked, in order
    diag,              \* the messages it printed with grub_printf
    grub_e820_map,     \* static struct e820_entry grub_e820_map[E820_MAX]
    grub_e820_nr_map,  \* static int grub_e820_nr_map
    pc,                \* position inside e820_map_from_efi_map
    desc,              \* the firmware descriptor fetched last by the loop
    ndesc,             \* number of descriptors fetched so far
    loc,               \* the locals start, size, end of e820_map_from_efi_map
    adds,              \* add_memory_region calls made for the descriptor desc
    mmar,              \* struct mmar_desc filled by get_mmap_entry
    cont,              \* the continuation value the walking caller holds
    walk               \* descriptors and return values the walk has received

vars == <<allocated_pages, table, fw, phase, call, ret, log, diag,
          grub_e820_map, grub_e820_nr_map, pc, desc, ndesc, loc, adds,
          mmar, cont, walk>>

allocVars == <<allocated_pages, table, fw, phase, call, ret, log, diag>>
xlateVars == <<pc, desc, ndesc, loc, adds>>
iterVars == <<mmar, cont, walk>>

(***************************************************************************)
(* Bounds of the model.                                                    *)
(***************************************************************************)
\* highest page frame number the modelled firmware can hand out
MaxPFN == 4
\* number of slots of the allocation table (0x1000 / 16 = 256 in the build)
MAX_ALLOCATED_PAGES == 2
\* capacity of the e820 table (E820_MAX of shared.h)
E820_MAX == 3
\* number of firmware descriptors one translation run reads
MaxDescs == 3

(***************************************************************************)
(* Program constants.                                                      *)
(***************************************************************************)
\* 0x7fffffff >> 12: the highest frame grub_efi_allocate_pages accepts
MAX_ADDRESS == 524287
\* BYTES_TO_PAGES (MEMORY_MAP_SIZE)
MEMORY_MAP_PAGES == 2
\* BYTES_TO_PAGES (ALLOCATED_PAGES_SIZE)
ALLOCATED_PAGES_PAGES == 1
MMAR_DESC_LENGTH == 20
\* the video/ROM hole [0xA0000, 0x100000)
HOLE_START == 655360
HOLE_END == 1048576

PFNs == 0..MaxPFN
\* page counts callers ask for
PageCounts == {ALLOCATED_PAGES_PAGES, MEMORY_MAP_PAGES}
\* addresses callers pass to grub_efi_allocate_pages
CallerAddrs == {0, 2, MAX_ADDRESS, MAX_ADDRESS + 1}

Slots == 0..(MAX_ALLOCATED_PAGES - 1)

(***************************************************************************)
(* The firmware's page services (b->allocate_pages, b->free_pages).  The   *)
(* firmware keeps a set of allocated ranges, never hands out a range that  *)
(* overlaps one still allocated, and may refuse any request.               *)
(***************************************************************************)
Overlaps(r, b, n) == r.base < b + n /\ b < r.base + r.pages

FwFits(f, b, n) == b + n - 1 <= MaxPFN /\ \A r \in f : ~Overlaps(r, b, n)

FwAllocatePages(f, type, address, n) ==
    {[status |-> "OUT_OF_RESOURCES", address |-> address]} \cup
    {[status |-> "SUCCESS", address |-> b] :
        b \in {x \in PFNs :
                 /\ FwFits(f, x, n)
                 /\ \/ type = "ANY_PAGES"
                    \/ type = "MAX_ADDRESS" /\ x + n - 1 <= address
                    \/ type = "ADDRESS" /\ x = address}}

FwFreePages(f, address) == {r \in f : r.base # address}

FwBases(f) == {r.base : r \in f}

AllocEvent(type, req, n, r) ==
    [fn |-> "allocate_pages", type |-> type, arg |-> req, pages |-> n,
     status |-> r.status, out |-> r.address]

FreeEvent(f, address, n) ==
    [fn |-> "free_pages", type |-> "", arg |-> address, pages |-> n,
     status |-> IF address \in FwBases(f) THEN "SUCCESS" ELSE "NOT_FOUND",
     out |-> 0]

(***************************************************************************)
(* The allocation table.                                                   *)
(***************************************************************************)
ZeroTable == [i \in Slots |-> [addr |-> 0, num_pages |-> 0]]

LiveSlots(tab) == {i \in Slots : tab[i].addr # 0}

\* the value of i when the scan "for (i = 0; i < MAX; i++) if (addr == key)"
\* ends: the first matching slot, or MAX_ALLOCATED_PAGES when none matches
ScanFor(tab, key) ==
    LET hit == {i \in Slots : tab[i].addr = key}
    IN  IF hit = {} THEN MAX_ALLOCATED_PAGES
        ELSE CHOOSE i \in hit : \A j \in hit : i <= j

\* the tail shared by both allocators: record the range, report exhaustion
RecordReturn(m, address, pages) ==
    IF m.ap = 0 THEN [m |-> m, ret |-> address]
    ELSE LET i == ScanFor(m.tab, 0)
         IN  IF i = MAX_ALLOCATED_PAGES
             THEN [m |-> [m EXCEPT !.diag =
                                Append(@, "too many page allocations")],
                   ret |-> 0]
             ELSE [m |-> [m EXCEPT !.tab[i] =
                                [addr |-> address, num_pages |-> pages]],
                   ret |-> address]

\* a free that forgets to clear the slot
ClearSlotNever(tab, address) == tab

\* a scan that clears slot 0 whichever slot matched
ClearSlotZero(tab, address) ==
    LET i == ScanFor(tab, address)
    IN  IF i = MAX_ALLOCATED_PAGES THEN tab
        ELSE [tab EXCEPT ![0].addr = 0]

\* the scan of grub_efi_free_pages
ClearSlot(tab, address) ==
    LET i == ScanFor(tab, address)
    IN  IF i = MAX_ALLOCATED_PAGES THEN tab
        ELSE [tab EXCEPT ![i].addr = 0]

FreePages(m, address, pages) ==
    [m EXCEPT
       !.tab = IF m.ap # 0 /\ m.ap # address THEN ClearSlot(m.tab, address)
               ELSE m.tab,
       !.fw  = FwFreePages(m.fw, address),
       !.log = Append(@, FreeEvent(m.fw, address, pages))]

FwTake(m, type, req, pages, r, by) ==
    [m EXCEPT
       !.fw  = IF r.status = "SUCCESS"
               THEN @ \cup {[base |-> r.address, pages |-> pages, by |-> by]}
               ELSE @,
       !.log = Append(@, AllocEvent(type, req, pages, r))]

\* every outcome [m, ret] of grub_efi_allocate_anypages (pages)
AllocateAnypages(m, pages, by) ==
    UNION {
       LET m1 == FwTake(m, "ANY_PAGES", 0, pages, r, by)
       IN  IF r.status # "SUCCESS" THEN {[m |-> m1, ret |-> 0]}
           ELSE {RecordReturn(m1, r.address, pages)}
       : r \in FwAllocatePages(m.fw, "ANY_PAGES", 0, pages)}

\* the ceiling test off by one page
AboveCeilingOffByOne(address) == address > MAX_ADDRESS + 1

AboveCeiling(address) == address > MAX_ADDRESS

\* address 0 treated like any other address: no second request, no free
ReallocateNone(m1, type, pages, by) == {RecordReturn(m1, 0, pages)}

\* a second request that leaves page 0 allocated
ReallocateKeepZero(m1, type, pages, by) ==
    UNION {
       LET m2 == FwTake(m1, type, MAX_ADDRESS, pages, r2, by)
       IN  IF r2.status # "SUCCESS" THEN {[m |-> m2, ret |-> 0]}
           ELSE {RecordReturn(m2, r2.address, pages)}
       : r2 \in FwAllocatePages(m1.fw, type, MAX_ADDRESS, pages)}

\* the second request made when the firmware returned address 0
Reallocate(m1, type, pages, by) ==
    UNION {
       LET m2 == FwTake(m1, type, MAX_ADDRESS, pages, r2, by)
           m3 == FreePages(m2, 0, pages)
       IN  IF r2.status # "SUCCESS" THEN {[m |-> m3, ret |-> 0]}
           ELSE {RecordReturn(m3, r2.address, pages)}
       : r2 \in FwAllocatePages(m1.fw, type, MAX_ADDRESS, pages)}

\* every outcome [m, ret] of grub_efi_allocate_pages (address, pages)
AllocatePages(m, address, pages, by) ==
    IF AboveCeiling(address) THEN {[m |-> m, ret |-> 0]}
    ELSE
      LET type == IF address = 0 THEN "MAX_ADDRESS" ELSE "ADDRESS"
          req  == IF address = 0 THEN MAX_ADDRESS ELSE address
      IN  UNION {
            LET m1 == FwTake(m, type, req, pages, r, by)
            IN  IF r.status # "SUCCESS" THEN {[m |-> m1, ret |-> 0]}
                ELSE IF r.address = 0 THEN Reallocate(m1, type, pages, by)
                ELSE {RecordReturn(m1, r.address, pages)}
            : r \in FwAllocatePages(m.fw, type, req, pages)}

(***************************************************************************)
(* The e820 table and its translator.  Index -1 of the table stands for    *)
(* the memory that precedes grub_e820_map: add_memory_region reads and may *)
(* write e820_map[x-1] with x = 0, and what lies there is not determined   *)
(* by this file.                                                           *)
(***************************************************************************)
E820Index == (-1)..(E820_MAX - 1)

ZeroEntry == [addr |-> 0, size |-> 0, type |-> "ZERO"]

\* what may precede the table in memory
BeforeEntries ==
    {ZeroEntry} \cup
    {[addr |-> 0, size |-> a, type |-> t] :
        a \in {589824}, t \in {"E820_RAM", "E820_RESERVED"}}

ZeroMap(before) == [i \in E820Index |-> IF i = -1 THEN before ELSE ZeroEntry]

PAGES_TO_BYTES(pages) == pages * 4096

\* an append that never merges
MergeableNever(last, start, type) == FALSE

\* the merge test of add_memory_region
Mergeable(last, start, type) ==
    last.addr + last.size = start /\ last.type = type

\* an append that still merges into the last entry when the table is full
AddMemoryRegionMergeWhenFull(e, start, size, type) ==
    LET x == e.nr
    IN  IF Mergeable(e.map[x - 1], start, type)
        THEN [e EXCEPT !.map[x - 1].size = @ + size]
        ELSE IF x = E820_MAX THEN e
        ELSE [e EXCEPT !.map[x] = [addr |-> start, size |-> size, type |-> type],
                       !.nr = x + 1]

\* add_memory_region (e820_map, e820_nr_map, start, size, type)
AddMemoryRegion(e, start, size, type) ==
    LET x == e.nr
    IN  IF x = E820_MAX THEN e
        ELSE IF Mergeable(e.map[x - 1], start, type)
        THEN [e EXCEPT !.map[x - 1].size = @ + size]
        ELSE [e EXCEPT !.map[x] = [addr |-> start, size |-> size, type |-> type],
                       !.nr = x + 1]

\* a switch without the case label GRUB_EFI_PAL_CODE
E820TypeWithoutPalCode(t) ==
    CASE t = "ACPI_RECLAIM_MEMORY" -> "E820_ACPI"
      [] t \in {"RUNTIME_SERVICES_CODE", "RUNTIME_SERVICES_DATA",
                "RESERVED_MEMORY_TYPE", "MEMORY_MAPPED_IO",
                "MEMORY_MAPPED_IO_PORT_SPACE",
                "UNUSABLE_MEMORY"} -> "E820_RESERVED"
      [] t \in {"LOADER_CODE", "LOADER_DATA", "BOOT_SERVICES_CODE",
                "BOOT_SERVICES_DATA", "CONVENTIONAL_MEMORY"} -> "E820_RAM"
      [] t = "ACPI_MEMORY_NVS" -> "E820_NVS"
      [] OTHER -> "NONE"

\* the case labels of the switch on desc->type
E820Type(t) ==
    CASE t = "ACPI_RECLAIM_MEMORY" -> "E820_ACPI"
      [] t \in {"RUNTIME_SERVICES_CODE", "RUNTIME_SERVICES_DATA",
                "RESERVED_MEMORY_TYPE", "MEMORY_MAPPED_IO",
                "MEMORY_MAPPED_IO_PORT_SPACE", "UNUSABLE_MEMORY",
                "PAL_CODE"} -> "E820_RESERVED"
      [] t \in {"LOADER_CODE", "LOADER_DATA", "BOOT_SERVICES_CODE",
                "BOOT_SERVICES_DATA", "CONVENTIONAL_MEMORY"} -> "E820_RAM"
      [] t = "ACPI_MEMORY_NVS" -> "E820_NVS"
      [] OTHER -> "NONE"

\* a hole test that looks only at regions starting below the hole
TouchesHoleFromBelow(start, end) == start < HOLE_START /\ end > HOLE_START

\* start < 0x100000 && end > 0xA0000
TouchesHole(start, end) == start < HOLE_END /\ end > HOLE_START

\* the regions the RAM case passes to add_memory_region, in order
RamRegions(d) ==
    LET start == d.physical_start
        size  == PAGES_TO_BYTES(d.num_pages)
        end   == start + size
        low   == IF start < HOLE_START
                 THEN <<[addr |-> start, size |-> HOLE_START - start,
                         type |-> "E820_RAM"]>>
                 ELSE <<>>
    IN  IF TouchesHole(start, end)
        THEN IF end <= HOLE_END THEN low
             ELSE low \o <<[addr |-> HOLE_END, size |-> end - HOLE_END,
                            type |-> "E820_RAM"]>>
        ELSE <<[addr |-> start, size |-> size, type |-> "E820_RAM"]>>

\* the regions one descriptor passes to add_memory_region, in order
DescRegions(d) ==
    LET t == E820Type(d.type)
    IN  IF t = "NONE" THEN <<>>
        ELSE IF t = "E820_RAM" THEN RamRegions(d)
        ELSE <<[addr |-> d.physical_start,
                size |-> PAGES_TO_BYTES(d.num_pages), type |-> t]>>

RECURSIVE AddRegions(_, _)
AddRegions(e, rs) ==
    IF rs = <<>> THEN e
    ELSE AddRegions(AddMemoryRegion(e, Head(rs).addr, Head(rs).size,
                                    Head(rs).type), Tail(rs))

RECURSIVE TranslateAll(_, _)
TranslateAll(e, mm) ==
    IF mm = <<>> THEN e
    ELSE TranslateAll(AddRegions(e, DescRegions(Head(mm))), Tail(mm))

\* e820_map_from_efi_map: the count is reset, the entries are not cleared
E820MapFromEfiMap(e, mm) == TranslateAll([e EXCEPT !.nr = 0], mm)

\* get_mmap_entry without the test for a negative continuation
GetMmapEntryNoLowerTest(e, d, c) ==
    IF c >= e.nr
    THEN [desc |-> [d EXCEPT !.desc_len = 0], ret |-> 0]
    ELSE [desc |-> [desc_len |-> MMAR_DESC_LENGTH,
                    addr |-> e.map[c].addr,
                    length |-> e.map[c].size,
                    type |-> e.map[c].type],
          ret |-> IF c + 1 < e.nr THEN c + 1 ELSE 0]

\* get_mmap_entry returning the next index even after the last entry
GetMmapEntryOffByOne(e, d, c) ==
    IF c < 0 \/ c >= e.nr
    THEN [desc |-> [d EXCEPT !.desc_len = 0], ret |-> 0]
    ELSE [desc |-> [desc_len |-> MMAR_DESC_LENGTH,
                    addr |-> e.map[c].addr,
                    length |-> e.map[c].size,
                    type |-> e.map[c].type],
          ret |-> IF c + 1 <= e.nr THEN c + 1 ELSE 0]

\* get_mmap_entry (desc, cont): the descriptor written and the value returned
GetMmapEntry(e, d, c) ==
    IF c < 0 \/ c >= e.nr
    THEN [desc |-> [d EXCEPT !.desc_len = 0], ret |-> 0]
    ELSE [desc |-> [desc_len |-> MMAR_DESC_LENGTH,
                    addr |-> e.map[c].addr,
                    length |-> e.map[c].size,
                    type |-> e.map[c].type],
          ret |-> IF c + 1 < e.nr THEN c + 1 ELSE 0]

(***************************************************************************)
(* update_e820_map, grub_efi_mm_init and grub_efi_mm_fini.                 *)
(***************************************************************************)
\* the return value of grub_efi_get_memory_map for a firmware status
GetMemoryMap(status) ==
    IF status = "SUCCESS" THEN 1
    ELSE IF status = "BUFFER_TOO_SMALL" THEN 0
    ELSE -1

\* the test update_e820_map applies to that return value
MapQueryFailed(rc) == rc < 0

MapStatuses == {"SUCCESS", "BUFFER_TOO_SMALL", "DEVICE_ERROR"}

MapEvent(status) ==
    [fn |-> "get_memory_map", type |-> "", arg |-> 0, pages |-> 0,
     status |-> status, out |-> GetMemoryMap(status)]

TranslateEvent ==
    [fn |-> "e820_map_from_efi_map", type |-> "", arg |-> 0, pages |-> 0,
     status |-> "", out |-> 0]

\* what the scratch buffer can hold when update_e820_map translates it: the
\* firmware's descriptors after SUCCESS, whatever the fresh pages held after
\* BUFFER_TOO_SMALL
StartupMaps ==
    {<<>>,
     <<[type |-> "CONVENTIONAL_MEMORY", physical_start |-> 1048576,
        num_pages |-> 16]>>}

\* every outcome [m, e] of update_e820_map
UpdateE820Map(m, e) ==
    UNION {
      IF o.ret = 0
      THEN {[m |-> [o.m EXCEPT !.diag = Append(@, "cannot allocate memory")],
             e |-> e]}
      ELSE UNION {
             LET m1 == [o.m EXCEPT !.log = Append(@, MapEvent(s))]
             IN  IF MapQueryFailed(GetMemoryMap(s))
                 THEN {[m |-> [m1 EXCEPT !.diag =
                                   Append(@, "cannot get memory map")],
                        e |-> e]}
                 ELSE {[m |-> FreePages([m1 EXCEPT !.log =
                                             Append(@, TranslateEvent)],
                                        o.ret, MEMORY_MAP_PAGES),
                        e |-> E820MapFromEfiMap(e, mm)] : mm \in StartupMaps}
             : s \in MapStatuses}
      : o \in AllocatePages(m, 0, MEMORY_MAP_PAGES, "update_e820_map")}

\* every outcome [m, e] of grub_efi_mm_init
MmInitOutcomes(m, e) ==
    UNION {
      LET m1 == [o.m EXCEPT !.ap = o.ret]
      IN  IF o.ret = 0
          THEN {[m |-> [m1 EXCEPT !.diag =
                            Append(@, "cannot allocate memory")],
                 e |-> e]}
          ELSE UpdateE820Map([m1 EXCEPT !.tab = ZeroTable], e)
      : o \in AllocatePages(m, 0, ALLOCATED_PAGES_PAGES, "mm_init")}

\* the loop of grub_efi_mm_fini from slot i on
RECURSIVE FiniLoop(_, _)
FiniLoop(m, i) ==
    IF i = MAX_ALLOCATED_PAGES THEN m
    ELSE FiniLoop(IF m.tab[i].addr # 0
                  THEN FreePages(m, m.tab[i].addr, m.tab[i].num_pages)
                  ELSE m,
                  i + 1)

\* a shutdown that frees the tracked ranges and keeps the storage
MmFiniResultKeepStorage(m) ==
    IF m.ap # 0 THEN FiniLoop(m, 0) ELSE m

MmFiniResult(m) ==
    IF m.ap # 0
    THEN FreePages(FiniLoop(m, 0), m.ap, ALLOCATED_PAGES_PAGES)
    ELSE m

(***************************************************************************)
(* The state machine of the allocator and the lifecycle.                   *)
(***************************************************************************)
M == [ap |-> allocated_pages, tab |-> table, fw |-> fw,
      log |-> <<>>, diag |-> <<>>]

E == [map |-> grub_e820_map, nr |-> grub_e820_nr_map]

NoCall == [op |-> "none", address |-> 0, pages |-> 0]
NoDesc == [type |-> "NONE", physical_start |-> 0, num_pages |-> 0]
NoRegion == [addr |-> 0, size |-> 0, type |-> "ZERO"]
ZeroMmar == [desc_len |-> 0, addr |-> 0, length |-> 0, type |-> "ZERO"]

Becomes(m, r, c) ==
    /\ allocated_pages' = m.ap
    /\ table' = m.tab
    /\ fw' = m.fw
    /\ log' = m.log
    /\ diag' = m.diag
    /\ ret' = r
    /\ call' = c

InitAlloc ==
    /\ allocated_pages = 0
    /\ table = ZeroTable
    /\ fw = {}
    /\ phase = "boot"
    /\ call = NoCall
    /\ ret = 0
    /\ log = <<>>
    /\ diag = <<>>

InitXlate ==
    /\ pc = "idle"
    /\ desc = NoDesc
    /\ ndesc = 0
    /\ loc = NoRegion
    /\ adds = <<>>

InitIter ==
    /\ mmar = ZeroMmar
    /\ cont = 0
    /\ walk = <<>>

Init ==
    /\ InitAlloc
    /\ InitXlate
    /\ InitIter
    /\ grub_e820_nr_map = 0
    /\ \E b \in {ZeroEntry, [addr |-> 0, size |-> 1048576,
                               type |-> "E820_RAM"]} :
          grub_e820_map = ZeroMap(b)

MmInit ==
    /\ phase = "boot"
    /\ phase' = "running"
    /\ \E o \in MmInitOutcomes(M, E) :
          /\ Becomes(o.m, 0, [op |-> "grub_efi_mm_init", address |-> 0,
                              pages |-> 0])
          /\ grub_e820_map' = o.e.map
          /\ grub_e820_nr_map' = o.e.nr
    /\ UNCHANGED <<xlateVars, iterVars>>

CallAllocateAnypages ==
    /\ phase = "running"
    /\ \E n \in PageCounts :
         \E o \in AllocateAnypages(M, n, "caller") :
            Becomes(o.m, o.ret, [op |-> "grub_efi_allocate_anypages",
                                 address |-> 0, pages |-> n])
    /\ UNCHANGED <<phase, grub_e820_map, grub_e820_nr_map, xlateVars, iterVars>>

CallAllocatePages ==
    /\ phase = "running"
    /\ \E a \in CallerAddrs, n \in PageCounts :
         \E o \in AllocatePages(M, a, n, "caller") :
            Becomes(o.m, o.ret, [op |-> "grub_efi_allocate_pages",
                                 address |-> a, pages |-> n])
    /\ UNCHANGED <<phase, grub_e820_map, grub_e820_nr_map, xlateVars, iterVars>>

\* the page count a caller passes when it frees address a: the size of the
\* range it holds there
HeldPages(a) ==
    IF a \in FwBases(fw) THEN (CHOOSE r \in fw : r.base = a).pages
    ELSE ALLOCATED_PAGES_PAGES

\* callers free page ranges by address; the address of the bookkeeping
\* storage is private to this file and is passed only by grub_efi_mm_fini
CallFreePages ==
    /\ phase = "running"
    /\ \E a \in PFNs \ {allocated_pages} :
          Becomes(FreePages(M, a, HeldPages(a)), 0,
                  [op |-> "grub_efi_free_pages", address |-> a,
                   pages |-> HeldPages(a)])
    /\ UNCHANGED <<phase, grub_e820_map, grub_e820_nr_map, xlateVars, iterVars>>

MmFini ==
    /\ phase = "running"
    /\ phase' = "finished"
    /\ Becomes(MmFiniResult(M), 0, [op |-> "grub_efi_mm_fini", address |-> 0,
                                    pages |-> 0])
    /\ UNCHANGED <<grub_e820_map, grub_e820_nr_map, xlateVars, iterVars>>

\* grub_efi_mm_fini leaves allocated_pages pointing at the page it has
\* handed back to the firmware.  What a later call reads there is not
\* determined by this file: the table as it was left, or whatever the page
\* has been reused for, here a slot 0 that names the highest frame.
ReleasedStorage(tab) ==
    {tab,
     [tab EXCEPT ![0] = [addr |-> MaxPFN, num_pages |-> ALLOCATED_PAGES_PAGES]]}

\* the machine a call made after grub_efi_mm_fini runs on
AfterFini ==
    {[M EXCEPT !.tab = t] :
        t \in IF allocated_pages # 0 THEN ReleasedStorage(table) ELSE {table}}

\* one more call after grub_efi_mm_fini: a second grub_efi_mm_fini ...
MmFiniAgain ==
    /\ phase = "finished"
    /\ phase' = "late"
    /\ \E m \in AfterFini :
          Becomes(MmFiniResult(m), 0, [op |-> "grub_efi_mm_fini",
                                       address |-> 0, pages |-> 0])
    /\ UNCHANGED <<grub_e820_map, grub_e820_nr_map, xlateVars, iterVars>>

\* ... or an allocation ...
LateAllocateAnypages ==
    /\ phase = "finished"
    /\ phase' = "late"
    /\ \E m \in AfterFini :
         \E o \in AllocateAnypages(m, ALLOCATED_PAGES_PAGES, "caller") :
            Becomes(o.m, o.ret, [op |-> "grub_efi_allocate_anypages",
                                 address |-> 0,
                                 pages |-> ALLOCATED_PAGES_PAGES])
    /\ UNCHANGED <<grub_e820_map, grub_e820_nr_map, xlateVars, iterVars>>

\* ... or a free
LateFreePages ==
    /\ phase = "finished"
    /\ phase' = "late"
    /\ \E m \in AfterFini :
         \E a \in PFNs \ {allocated_pages} :
            Becomes(FreePages(m, a, HeldPages(a)), 0,
                    [op |-> "grub_efi_free_pages", address |-> a,
                     pages |-> HeldPages(a)])
    /\ UNCHANGED <<grub_e820_map, grub_e820_nr_map, xlateVars, iterVars>>

Next ==
    \/ MmInit
    \/ CallAllocateAnypages
    \/ CallAllocatePages
    \/ CallFreePages
    \/ MmFini
    \/ MmFiniAgain
    \/ LateAllocateAnypages
    \/ LateFreePages

Spec == Init /\ [][Next]_vars

(***************************************************************************)
(* e820_map_from_efi_map, one descriptor at a time, followed by a caller   *)
(* that walks the finished table with get_mmap_entry.  The firmware's      *)
(* memory map is read as the loop advances: any descriptor may come next.  *)
(***************************************************************************)
RamDesc(start, pages) ==
    [type |-> "CONVENTIONAL_MEMORY", physical_start |-> start,
     num_pages |-> pages]

OtherDesc(type, start, pages) ==
    [type |-> type, physical_start |-> start, num_pages |-> pages]

\* the descriptors a run draws from: RAM below the hole (0x90000-0xA0000),
\* across it (0x90000-0x110000), inside it (0xA0000-0x100000), from inside
\* it to above it (0xA0000-0x120000) and above it (0x100000-0x110000,
\* 0x110000-0x120000); reserved, ACPI and unknown regions next to them;
\* every type tag the switch names, on one of these ranges
Descs ==
    {RamDesc(589824, 16), RamDesc(589824, 128), RamDesc(655360, 96),
     RamDesc(655360, 128), RamDesc(1048576, 16), RamDesc(1114112, 16),
     OtherDesc("RESERVED_MEMORY_TYPE", 589824, 16),
     OtherDesc("RUNTIME_SERVICES_DATA", 655360, 96),
     OtherDesc("RESERVED_MEMORY_TYPE", 1114112, 16),
     OtherDesc("ACPI_RECLAIM_MEMORY", 1048576, 16),
     OtherDesc("ACPI_MEMORY_NVS", 1114112, 16),
     OtherDesc("PERSISTENT_MEMORY", 1048576, 16),
     OtherDesc("RUNTIME_SERVICES_CODE", 589824, 16),
     OtherDesc("MEMORY_MAPPED_IO", 655360, 96),
     OtherDesc("MEMORY_MAPPED_IO_PORT_SPACE", 655360, 96),
     OtherDesc("UNUSABLE_MEMORY", 1114112, 16),
     OtherDesc("PAL_CODE", 589824, 16),
     OtherDesc("LOADER_CODE", 589824, 128),
     OtherDesc("LOADER_DATA", 1048576, 16),
     OtherDesc("BOOT_SERVICES_CODE", 655360, 96),
     OtherDesc("BOOT_SERVICES_DATA", 1114112, 16)}

InitE820 ==
    /\ InitAlloc
    /\ InitIter
    /\ pc = "loop"
    /\ desc = NoDesc
    /\ ndesc = 0
    /\ loc = NoRegion
    /\ adds = <<>>
    /\ grub_e820_nr_map = 0
    /\ \E b \in BeforeEntries : grub_e820_map = ZeroMap(b)

\* the loop fetches descriptor d
Fetch(d) ==
    /\ pc = "loop"
    /\ ndesc < MaxDescs
    /\ desc' = d
    /\ ndesc' = ndesc + 1

Stored(e) ==
    /\ grub_e820_map' = e.map
    /\ grub_e820_nr_map' = e.nr

\* a case that passes the whole descriptor to add_memory_region
CaseWhole(d) ==
    /\ Fetch(d)
    /\ Stored(AddRegions(E, DescRegions(d)))
    /\ adds' = DescRegions(d)
    /\ UNCHANGED <<pc, loc>>

CaseAcpiReclaim ==
    /\ \E d \in Descs : E820Type(d.type) = "E820_ACPI" /\ CaseWhole(d)
    /\ UNCHANGED <<allocVars, iterVars>>

CaseReserved ==
    /\ \E d \in Descs : E820Type(d.type) = "E820_RESERVED" /\ CaseWhole(d)
    /\ UNCHANGED <<allocVars, iterVars>>

CaseNvs ==
    /\ \E d \in Descs : E820Type(d.type) = "E820_NVS" /\ CaseWhole(d)
    /\ UNCHANGED <<allocVars, iterVars>>

CaseDefault ==
    /\ \E d \in Descs : E820Type(d.type) = "NONE" /\ CaseWhole(d)
    /\ UNCHANGED <<allocVars, iterVars>>

\* the RAM case up to its first add_memory_region call; when the part below
\* the hole has been added and the region goes on above the hole, start and
\* size are set to that part and the second call is still to come
CaseRam ==
    /\ \E d \in Descs :
         /\ E820Type(d.type) = "E820_RAM"
         /\ Fetch(d)
         /\ LET rs == RamRegions(d)
            IN  IF Len(rs) = 2
                THEN /\ Stored(AddRegions(E, <<rs[1]>>))
                     /\ adds' = <<rs[1]>>
                     /\ loc' = rs[2]
                     /\ pc' = "tail"
                ELSE /\ Stored(AddRegions(E, rs))
                     /\ adds' = rs
                     /\ UNCHANGED <<pc, loc>>
    /\ UNCHANGED <<allocVars, iterVars>>

\* the add_memory_region call that ends the RAM case
RamTail ==
    /\ pc = "tail"
    /\ Stored(AddMemoryRegion(E, loc.addr, loc.size, "E820_RAM"))
    /\ adds' = Append(adds, loc)
    /\ pc' = "loop"
    /\ UNCHANGED <<desc, ndesc, loc, allocVars, iterVars>>

\* desc reaches memory_map_end
LoopExit ==
    /\ pc = "loop"
    /\ pc' = "done"
    /\ UNCHANGED <<grub_e820_map, grub_e820_nr_map, desc, ndesc, loc, adds,
                   allocVars, iterVars>>

WalkEnded == walk # <<>> /\ walk[Len(walk)].ret = 0

\* the caller's next get_mmap_entry call, with the continuation it holds;
\* call.address holds the continuation passed and ret the value returned
WalkNext ==
    /\ pc = "done"
    /\ ~WalkEnded
    /\ Len(walk) <= E820_MAX
    /\ LET r == GetMmapEntry(E, mmar, cont)
       IN  /\ mmar' = r.desc
           /\ cont' = r.ret
           /\ walk' = Append(walk, [cont |-> cont, desc |-> r.desc,
                                    ret |-> r.ret])
           /\ ret' = r.ret
           /\ call' = [op |-> "get_mmap_entry", address |-> cont, pages |-> 0]
    /\ UNCHANGED <<grub_e820_map, grub_e820_nr_map, xlateVars,
                   allocated_pages, table, fw, phase, log, diag>>

\* the continuation values a caller passes besides the ones it was handed:
\* a negative one, the first index, the region count and one past capacity
ProbeConts(nr) == {-1, 0, nr, E820_MAX + 1}

\* a get_mmap_entry call with any continuation, on the descriptor the
\* finished walk has left behind
CallGetMmapEntry ==
    /\ pc = "done"
    /\ WalkEnded
    /\ \E c \in ProbeConts(grub_e820_nr_map) :
         LET r == GetMmapEntry(E, mmar, c)
         IN  /\ mmar' = r.desc
             /\ ret' = r.ret
             /\ call' = [op |-> "get_mmap_entry", address |-> c, pages |-> 0]
    /\ UNCHANGED <<grub_e820_map, grub_e820_nr_map, xlateVars, cont, walk,
                   allocated_pages, table, fw, phase, log, diag>>

NextE820 ==
    \/ CaseAcpiReclaim
    \/ CaseReserved
    \/ CaseRam
    \/ CaseNvs
    \/ CaseDefault
    \/ RamTail
    \/ LoopExit
    \/ WalkNext
    \/ CallGetMmapEntry

SpecE820 == InitE820 /\ [][NextE820]_vars

(***************************************************************************)
(* Properties of the allocator (specification Spec).                       *)
(***************************************************************************)
Allocators == {"grub_efi_allocate_anypages", "grub_efi_allocate_pages"}

LiveAddrs == {table[i].addr : i \in LiveSlots(table)}

\* the firmware allocate_pages calls of the last entry point that succeeded
Granted == {k \in 1..Len(log) :
              log[k].fn = "allocate_pages" /\ log[k].status = "SUCCESS"}

\* the address the firmware returned last to the last entry point
LastGranted == log[CHOOSE k \in Granted : \A j \in Granted : j <= k].out

\* C1: between grub_efi_mm_init and grub_efi_mm_fini, whatever allocate and
\* free calls are made, every live slot of the allocation table holds an
\* address that is still allocated (the firmware releases a range only when
\* grub_efi_free_pages is called on it, so a live slot never names a freed
\* address), and no two live slots hold the same address.
C1_TableTracksLiveRanges ==
    (phase = "running" /\ allocated_pages # 0) =>
        /\ \A i \in LiveSlots(table) : table[i].addr \in FwBases(fw)
        /\ \A i, j \in LiveSlots(table) :
              table[i].addr = table[j].addr => i = j

\* a tracked range has just been freed while another one stays tracked
C1_Witness ==
    /\ phase = "running"
    /\ allocated_pages # 0
    /\ call.op = "grub_efi_free_pages"
    /\ log[1].status = "SUCCESS"
    /\ LiveSlots(table) # {}
    /\ call.address \notin LiveAddrs

\* C2: once grub_efi_mm_init has set up the bookkeeping storage, every range
\* the firmware allocates for a caller of grub_efi_allocate_anypages or
\* grub_efi_allocate_pages is recorded in a live slot of the allocation
\* table for as long as it stays allocated, and after grub_efi_mm_fini no
\* such range is still allocated in the firmware.
C2_EveryCallerRangeReleased ==
    allocated_pages # 0 =>
        /\ phase = "running" =>
              \A r \in fw : r.by = "caller" => r.base \in LiveAddrs
        /\ phase = "finished" =>
              \A r \in fw : r.by # "caller"

\* C3: when an allocator finds no unused slot (it prints "too many page
\* allocations") after the firmware call succeeded, it still returns the
\* base address the firmware allocated.
C3_ExhaustionStillReturnsBase ==
    (call.op \in Allocators /\ diag # <<>> /\ Granted # {}) =>
        ret = LastGranted

\* C4: grub_efi_mm_init translates the memory map only when the map reader
\* returns 1; when it returns 0 or -1 the translator is not invoked and the
\* region count stays 0.
C4_TranslateOnlyOnSuccess ==
    (call.op = "grub_efi_mm_init"
       /\ \E k \in 1..Len(log) :
             log[k].fn = "get_memory_map" /\ log[k].out # 1) =>
        /\ \A k \in 1..Len(log) : log[k].fn # "e820_map_from_efi_map"
        /\ grub_e820_nr_map = 0

\* the firmware returned address 0 to the last entry point
GotAddressZero ==
    \E k \in Granted : log[k].out = 0

\* C5 as stated: grub_efi_allocate_pages (0, n) never hands out address 0;
\* it returns absent or a non-zero base address that is recorded in the
\* allocation table.
C5_ReturnedBaseAlwaysRecorded ==
    (call.op = "grub_efi_allocate_pages" /\ call.address = 0) =>
        /\ GotAddressZero => 0 \notin FwBases(fw)
        /\ ret # 0 =>
              /\ ret = LastGranted
              /\ \E i \in Slots :
                    table[i] = [addr |-> ret, num_pages |-> call.pages]

\* C5 (amended): grub_efi_allocate_pages (0, n) never hands out address 0:
\* when the firmware returns base 0 that range is released again, and the
\* call returns absent or the non-zero base address of the last firmware
\* allocation, which is recorded in the allocation table whenever the
\* bookkeeping storage exists (without it nothing is recorded).
C5_NeverHandsOutZero ==
    (call.op = "grub_efi_allocate_pages" /\ call.address = 0) =>
        /\ GotAddressZero => 0 \notin FwBases(fw)
        /\ ret # 0 =>
              /\ ret = LastGranted
              /\ ret \in FwBases(fw)
              /\ allocated_pages # 0 =>
                    \E i \in Slots :
                       table[i] = [addr |-> ret, num_pages |-> call.pages]

\* the firmware returned 0 first and the second request was recorded
C5_Witness ==
    /\ call.op = "grub_efi_allocate_pages"
    /\ call.address = 0
    /\ allocated_pages # 0
    /\ Len(log) = 3
    /\ log[1].status = "SUCCESS"
    /\ log[1].out = 0
    /\ ret # 0
    /\ ret \in LiveAddrs

\* C6: grub_efi_allocate_pages (addr, n) with addr above the ceiling returns
\* absent, calls no firmware service and leaves the allocation table, the
\* bookkeeping pointer and the firmware's ranges as they were.
C6_AboveCeilingRejected ==
    [][(call'.op = "grub_efi_allocate_pages" /\ call'.address > MAX_ADDRESS) =>
          /\ ret' = 0
          /\ log' = <<>>
          /\ diag' = <<>>
          /\ table' = table
          /\ allocated_pages' = allocated_pages
          /\ fw' = fw]_vars

\* an above-ceiling request made while ranges are tracked
C6_Witness ==
    /\ call.op = "grub_efi_allocate_pages"
    /\ call.address > MAX_ADDRESS
    /\ LiveSlots(table) # {}
    /\ allocated_pages # 0

\* C14: when the firmware answers the first request of
\* grub_efi_allocate_pages (0, n) with base 0, the call makes exactly one
\* more allocate request, of the same type and size below the 0x7fffffff
\* ceiling, and then frees page 0 exactly once, whether that request
\* succeeded or not.  If it failed the call returns absent and neither the
\* table nor the firmware's ranges have changed; if it succeeded the
\* firmware holds that one range more and at most one slot has changed, to
\* the address of the second request.
C14_AddressZeroRetry ==
    [][(/\ call'.op = "grub_efi_allocate_pages" /\ call'.address = 0
        /\ log' # <<>> /\ log'[1].status = "SUCCESS" /\ log'[1].out = 0) =>
          /\ Len(log') = 3
          /\ log'[2] = [fn |-> "allocate_pages", type |-> "MAX_ADDRESS",
                        arg |-> MAX_ADDRESS, pages |-> call'.pages,
                        status |-> log'[2].status, out |-> log'[2].out]
          /\ log'[3] = [fn |-> "free_pages", type |-> "", arg |-> 0,
                        pages |-> call'.pages, status |-> "SUCCESS",
                        out |-> 0]
          /\ 0 \notin FwBases(fw')
          /\ allocated_pages' = allocated_pages
          /\ IF log'[2].status # "SUCCESS"
             THEN /\ ret' = 0
                  /\ table' = table
                  /\ fw' = fw
             ELSE LET a == log'[2].out
                      changed == {i \in Slots : table'[i] # table[i]}
                  IN  /\ a # 0
                      /\ fw' = fw \cup {[base |-> a, pages |-> call'.pages,
                                         by |-> "caller"]}
                      /\ Cardinality(changed) <= 1
                      /\ \A i \in changed :
                            table'[i] = [addr |-> a, num_pages |-> call'.pages]
                      /\ ret' \in {0, a}
                      /\ (ret' = a /\ allocated_pages # 0) =>
                            changed # {}]_vars

\* the firmware returned 0, the second request failed and page 0 is free again
C14_Witness ==
    /\ call.op = "grub_efi_allocate_pages"
    /\ call.address = 0
    /\ Len(log) = 3
    /\ log[1].status = "SUCCESS"
    /\ log[1].out = 0
    /\ log[2].status # "SUCCESS"
    /\ log[3].arg = 0
    /\ ret = 0
    /\ 0 \notin FwBases(fw)
    /\ LiveSlots(table) # {}

\* the positions of log at which address a is passed to free_pages
FreesOf(l, a) == {k \in 1..Len(l) : l[k].fn = "free_pages" /\ l[k].arg = a}

\* C12: when grub_efi_mm_fini is the call that follows grub_efi_mm_init,
\* whatever the memory-map query returned, it leaves no range allocated in
\* the firmware: it calls free_pages once for each range the table records,
\* then once for the bookkeeping storage, and nothing else; without
\* bookkeeping storage it calls nothing.
C12_StartupThenShutdown ==
    [][(call.op = "grub_efi_mm_init" /\ call'.op = "grub_efi_mm_fini") =>
          /\ fw' = {}
          /\ allocated_pages = 0 => log' = <<>>
          /\ allocated_pages # 0 =>
                /\ Len(log') = Cardinality(LiveSlots(table)) + 1
                /\ \A k \in 1..Len(log') :
                      log'[k].fn = "free_pages" /\ log'[k].status = "SUCCESS"
                /\ \A i \in LiveSlots(table) :
                      Cardinality(FreesOf(log', table[i].addr)) = 1
                /\ FreesOf(log', allocated_pages) = {Len(log')}]_vars

\* a shutdown has freed one tracked range of the size of the memory-map
\* buffer and then the bookkeeping storage, leaving the firmware empty
C12_Witness ==
    /\ phase = "finished"
    /\ call.op = "grub_efi_mm_fini"
    /\ allocated_pages # 0
    /\ Len(log) = 2
    /\ log[1].pages = MEMORY_MAP_PAGES
    /\ log[2].arg = allocated_pages
    /\ fw = {}

\* C16: between grub_efi_mm_init and grub_efi_mm_fini the address of the
\* bookkeeping storage is never the address of a live slot.
\* grub_efi_free_pages (a, n) with another address changes at most one slot,
\* one whose address is a, and only by clearing its address; it clears one
\* when a tracked range is freed; and it calls the firmware's free_pages
\* with a and n exactly once, whether a slot matched or not.  The free of
\* the bookkeeping address itself, made by grub_efi_mm_fini after its loop
\* has cleared the live slots, changes no slot.
C16_BookkeepingAddressUntracked ==
    [][/\ (phase' = "running" /\ allocated_pages' # 0) =>
             \A i \in LiveSlots(table') : table'[i].addr # allocated_pages'
       /\ (phase = "running" /\ call'.op = "grub_efi_free_pages") =>
             LET a == call'.address
                 hit == {i \in Slots : table[i].addr = a}
                 changed == {i \in Slots : table'[i] # table[i]}
             IN  /\ changed \subseteq hit
                 /\ Cardinality(changed) <= 1
                 /\ \A i \in changed : table'[i] = [table[i] EXCEPT !.addr = 0]
                 /\ (allocated_pages # 0 /\ a # 0 /\ hit # {}) => changed # {}
                 /\ Len(log') = 1
                 /\ log'[1].fn = "free_pages"
                 /\ log'[1].arg = a
                 /\ log'[1].pages = call'.pages
       /\ (phase = "running" /\ call'.op = "grub_efi_mm_fini"
             /\ allocated_pages # 0) =>
             /\ log'[Len(log')].arg = allocated_pages
             /\ table' = [i \in Slots |-> [table[i] EXCEPT !.addr = 0]]]_vars

\* an address no slot holds has been freed while both slots stay live
C16_Witness ==
    /\ phase = "running"
    /\ allocated_pages # 0
    /\ call.op = "grub_efi_free_pages"
    /\ log[1].status = "NOT_FOUND"
    /\ call.address \notin LiveAddrs
    /\ Cardinality(LiveSlots(table)) >= 2

\* C19: the buffer update_e820_map allocates for the memory map is released
\* before grub_efi_mm_init returns, on every path, the failed map query
\* included: when grub_efi_mm_init has returned no slot is live and the
\* firmware holds no range allocated by update_e820_map.
C19_ScratchReleasedByStartup ==
    (phase = "running" /\ call.op = "grub_efi_mm_init") =>
        /\ LiveSlots(table) = {}
        /\ \A r \in fw : r.by # "update_e820_map"

\* C18: once grub_efi_mm_fini has freed the bookkeeping storage the tracker
\* is absent (allocated_pages is NULL), so a call made afterwards has no
\* table to read or write, and a second grub_efi_mm_fini calls no firmware
\* service: it frees neither the storage again nor anything the released
\* page names.
C18_AbsentAfterShutdown ==
    phase = "late" =>
        /\ allocated_pages = 0
        /\ call.op = "grub_efi_mm_fini" => log = <<>>

(***************************************************************************)
(* Properties of the translator and the iterator (specification SpecE820). *)
(***************************************************************************)
Stored820 == 0..(grub_e820_nr_map - 1)

EndOf(r) == r.addr + r.size

\* the region a descriptor covers, with its e820 type
WholeRegion(d) ==
    [addr |-> d.physical_start, size |-> PAGES_TO_BYTES(d.num_pages),
     type |-> E820Type(d.type)]

\* C7: at every point of the translation, after each single append, no two
\* neighbouring stored entries have the same type with the first ending
\* where the second starts.
C7_NoMergeableNeighbours ==
    \A i \in Stored820 :
        (i + 1) \in Stored820 =>
            ~(/\ grub_e820_map[i].type = grub_e820_map[i + 1].type
              /\ EndOf(grub_e820_map[i]) = grub_e820_map[i + 1].addr)

\* a split has just appended the part above the hole after merging or
\* appending the part below it, both stored as RAM
C7_Witness ==
    /\ pc = "loop"
    /\ Len(adds) = 2
    /\ grub_e820_nr_map >= 2
    /\ grub_e820_map[grub_e820_nr_map - 1].type = "E820_RAM"
    /\ grub_e820_map[grub_e820_nr_map - 2].type = "E820_RAM"

\* the descriptor is passed to add_memory_region whole, in one call
Unsplit(d) == DescRegions(d) = <<WholeRegion(d)>>

\* C8: when the loop has translated descriptor d1 and then translates d2,
\* both passed whole and to the same e820 type, with room left in the table:
\* d1 lies at the end of the last stored entry; if d1 ends where d2 starts
\* that entry grows by d2's length and no entry is added; otherwise d2
\* becomes a new entry with its own base and length.  d1 may be the first
\* descriptor of the map.
C8_ConsecutiveSameType ==
    [][(/\ pc = "loop" /\ pc' = "loop"
        /\ ndesc >= 1 /\ ndesc' = ndesc + 1
        /\ Unsplit(desc) /\ Unsplit(desc')
        /\ E820Type(desc.type) = E820Type(desc'.type)
        /\ grub_e820_nr_map < E820_MAX) =>
          LET r1 == WholeRegion(desc)
              r2 == WholeRegion(desc')
              n  == grub_e820_nr_map
          IN  /\ n >= 1
              /\ grub_e820_map[n - 1].type = r1.type
              /\ EndOf(grub_e820_map[n - 1]) = EndOf(r1)
              /\ grub_e820_map[n - 1].size >= r1.size
              /\ IF EndOf(r1) = r2.addr
                 THEN /\ grub_e820_nr_map' = n
                      /\ grub_e820_map'[n - 1] =
                            [grub_e820_map[n - 1] EXCEPT !.size = @ + r2.size]
                 ELSE /\ grub_e820_nr_map' = n + 1
                      /\ grub_e820_map'[n] = r2
                      /\ grub_e820_map'[n - 1] = grub_e820_map[n - 1]]_vars

\* C9: no stored RAM entry covers a byte of the video/ROM hole, at any point
\* of the translation; a RAM descriptor that starts below the hole and ends
\* above it is passed on as exactly its part below 0xA0000 and its part from
\* 0x100000 on, and one lying inside the hole is not passed on at all.
C9_RamAvoidsHole ==
    /\ \A i \in Stored820 :
          (grub_e820_map[i].type = "E820_RAM" /\ grub_e820_map[i].size > 0) =>
              \/ EndOf(grub_e820_map[i]) <= HOLE_START
              \/ grub_e820_map[i].addr >= HOLE_END
    /\ (pc \in {"loop", "done"} /\ ndesc >= 1
          /\ E820Type(desc.type) = "E820_RAM") =>
          LET start == desc.physical_start
              end   == start + PAGES_TO_BYTES(desc.num_pages)
          IN  /\ (start < HOLE_START /\ end > HOLE_END) =>
                    adds = <<[addr |-> start, size |-> HOLE_START - start,
                              type |-> "E820_RAM"],
                             [addr |-> HOLE_END, size |-> end - HOLE_END,
                              type |-> "E820_RAM"]>>
              /\ (start >= HOLE_START /\ end <= HOLE_END) => adds = <<>>

\* the descriptor 0x90000-0x110000 has been split: the entry before the last
\* ends at 0xA0000 and the last entry is 0x100000-0x110000
C9_Witness ==
    /\ pc = "loop"
    /\ desc = RamDesc(589824, 128)
    /\ Len(adds) = 2
    /\ grub_e820_nr_map >= 2
    /\ grub_e820_map[grub_e820_nr_map - 1] =
          [addr |-> HOLE_END, size |-> 65536, type |-> "E820_RAM"]
    /\ grub_e820_map[grub_e820_nr_map - 2].type = "E820_RAM"
    /\ EndOf(grub_e820_map[grub_e820_nr_map - 2]) = HOLE_START

\* C10: a caller that walks a table of N >= 1 entries from continuation 0,
\* feeding each returned value back, receives entry k-1 on its k-th call
\* with desc_len 20 and the entry's addr, size and type, is returned k by
\* each of the first N-1 calls and 0 by the N-th, and so makes N calls.
C10_WalkVisitsAllInOrder ==
    (pc = "done" /\ grub_e820_nr_map >= 1) =>
        /\ Len(walk) <= grub_e820_nr_map
        /\ \A k \in 1..Len(walk) :
              /\ walk[k].cont = k - 1
              /\ walk[k].desc =
                    [desc_len |-> 20,
                     addr |-> grub_e820_map[k - 1].addr,
                     length |-> grub_e820_map[k - 1].size,
                     type |-> grub_e820_map[k - 1].type]
              /\ walk[k].ret = IF k < grub_e820_nr_map THEN k ELSE 0
        /\ WalkEnded <=> Len(walk) = grub_e820_nr_map

\* a walk over three entries has ended
C10_Witness ==
    /\ pc = "done"
    /\ grub_e820_nr_map = 3
    /\ WalkEnded
    /\ Len(walk) = 3

\* C11: get_mmap_entry called with a continuation that is negative or not
\* below the region count (continuation 0 on an empty table included) sets
\* desc_len to 0 and returns 0; the other fields of the caller's descriptor
\* keep their values, so nothing of a table entry is copied, and the table
\* and its count are left as they were.
C11_OutOfRangeContinuation ==
    [][(call'.op = "get_mmap_entry"
          /\ (call'.address < 0 \/ call'.address >= grub_e820_nr_map)) =>
          /\ ret' = 0
          /\ mmar' = [mmar EXCEPT !.desc_len = 0]
          /\ mmar'.desc_len = 0
          /\ grub_e820_map' = grub_e820_map
          /\ grub_e820_nr_map' = grub_e820_nr_map]_vars

\* continuation 3 passed for a table of three entries, after a call that
\* had filled the descriptor from an entry
C11_Witness ==
    /\ call.op = "get_mmap_entry"
    /\ grub_e820_nr_map = 3
    /\ call.address = 3
    /\ ret = 0
    /\ mmar.desc_len = 0
    /\ mmar.type # "ZERO"

\* C13: the region count never exceeds E820_MAX; while the table holds
\* E820_MAX entries every region passed to add_memory_region is dropped,
\* mergeable with the last entry or not, leaving entries and count as they
\* were, and the loop goes on fetching the descriptors that remain.
C13_FullTableDropsRegions ==
    [][/\ grub_e820_nr_map' <= E820_MAX
       /\ (grub_e820_nr_map = E820_MAX /\ pc \in {"loop", "tail"}) =>
             /\ grub_e820_map' = grub_e820_map
             /\ grub_e820_nr_map' = grub_e820_nr_map
             /\ ndesc' > ndesc => pc' \in {"loop", "tail"}
             /\ pc = "tail" => pc' = "loop"]_vars

\* a region that continues the last entry has been dropped by the full table
\* and the loop is ready for the next descriptor
C13_Witness ==
    /\ pc = "loop"
    /\ grub_e820_nr_map = E820_MAX
    /\ adds # <<>>
    /\ Mergeable(grub_e820_map[E820_MAX - 1], adds[Len(adds)].addr,
                 adds[Len(adds)].type)

\* C15: the loop translates each descriptor by its type tag alone.  ACPI
\* reclaim memory is passed to add_memory_region as ACPI; runtime services
\* code and data, reserved, memory-mapped I/O, memory-mapped I/O port space,
\* unusable and PAL code as Reserved; ACPI NVS as NVS: each whole, from its
\* physical start over its page count times 4096 bytes, also across the
\* hole; an entry stored for it is that region, and a stored entry it is
\* merged into is of that type and grows by its full length.  Loader code
\* and data, boot services code and data and conventional memory are passed
\* on only as RAM.  Any other tag passes nothing on and leaves entries and
\* count as they were.
C15_TypeTagMapping ==
    [][ndesc' = ndesc + 1 =>
         LET d == desc'
             n == grub_e820_nr_map
             Whole(t) == [addr |-> d.physical_start,
                          size |-> d.num_pages * 4096, type |-> t]
             PassedWhole(t) ==
                 /\ adds' = <<Whole(t)>>
                 /\ pc' = "loop"
                 /\ grub_e820_nr_map' \in {n, n + 1}
                 /\ grub_e820_nr_map' = n + 1 => grub_e820_map'[n] = Whole(t)
                 /\ (grub_e820_nr_map' = n /\ n >= 1 /\ n < E820_MAX) =>
                       /\ grub_e820_map[n - 1].type = t
                       /\ grub_e820_map'[n - 1] =
                             [grub_e820_map[n - 1] EXCEPT
                                !.size = @ + d.num_pages * 4096]
         IN  CASE d.type = "ACPI_RECLAIM_MEMORY" -> PassedWhole("E820_ACPI")
               [] d.type \in {"RUNTIME_SERVICES_CODE", "RUNTIME_SERVICES_DATA",
                              "RESERVED_MEMORY_TYPE", "MEMORY_MAPPED_IO",
                              "MEMORY_MAPPED_IO_PORT_SPACE", "UNUSABLE_MEMORY",
                              "PAL_CODE"} -> PassedWhole("E820_RESERVED")
               [] d.type = "ACPI_MEMORY_NVS" -> PassedWhole("E820_NVS")
               [] d.type \in {"LOADER_CODE", "LOADER_DATA",
                              "BOOT_SERVICES_CODE", "BOOT_SERVICES_DATA",
                              "CONVENTIONAL_MEMORY"} ->
                     /\ \A k \in 1..Len(adds') : adds'[k].type = "E820_RAM"
                     /\ \A i \in 0..(E820_MAX - 1) :
                           grub_e820_map'[i] # grub_e820_map[i] =>
                               grub_e820_map'[i].type = "E820_RAM"
               [] OTHER ->
                     /\ adds' = <<>>
                     /\ pc' = "loop"
                     /\ grub_e820_map' = grub_e820_map
                     /\ grub_e820_nr_map' = n]_vars

\* a memory-mapped I/O region lying across the hole has been stored whole as
\* a Reserved entry behind an earlier entry
C15_Witness ==
    /\ pc = "loop"
    /\ desc = OtherDesc("MEMORY_MAPPED_IO", 655360, 96)
    /\ grub_e820_nr_map >= 2
    /\ grub_e820_map[grub_e820_nr_map - 1] =
          [addr |-> 655360, size |-> 393216, type |-> "E820_RESERVED"]

\* C17: add_memory_region consults the entry before the new one only when
\* there is one: nothing below index 0 is ever written, and the first
\* region passed while the table is empty is stored as entry 0 and makes
\* the count 1.
C17_FirstRegionIsEntryZero ==
    [][/\ grub_e820_map'[-1] = grub_e820_map[-1]
       /\ (grub_e820_nr_map = 0 /\ ndesc' = ndesc + 1 /\ adds' # <<>>) =>
             /\ grub_e820_nr_map' = 1
             /\ grub_e820_map'[0] = adds'[1]]_vars

====
